---- MODULE Spec2Model ----
(***************************************************************************)
(* The dispatch pipeline of the mail system: the Email table, the Celery   *)
(* beat task scheduler_dispatcher, the Celery task send_batch_task, the    *)
(* in-process scheduler process_pending_emails started by run.py, and the  *)
(* tracking endpoints /track/<id> and /click/<id>.                         *)
(*                                                                         *)
(* Every database transaction of the code is one step: a handler is cut    *)
(* at its commits, so that concurrent handlers interleave exactly where    *)
(* the database lets them (READ COMMITTED, the Postgres default of         *)
(* config.py).                                                             *)
(*                                                                         *)
(* An action takes what its step gets from outside (whether a connection   *)
(* opens, what the relay answers) as a parameter.  Spec is the whole       *)
(* pipeline, SpecTrack adds the tracking endpoints to one beat task,       *)
(* SpecBatch is the Celery side alone with the relay exchange of every     *)
(* step kept in smtp, SpecTask is send_batch_task on any id list,          *)
(* SpecDispatch is the two schedulers over a table of rows of every kind,  *)
(* SpecBeat is periodic beat alone over a table larger than its limit.     *)
(***************************************************************************)
EXTENDS Integers, Sequences, FiniteSets, TLC

\* ------------------------------------------------------------- bounds
NMsg == 2          \* rows of the Email table
NTicks == 2        \* scheduler_dispatcher executions (beat firings)
MaxClock == 1      \* clock readings 0..MaxClock
SelectLimit == 3   \* stands for .limit(2000), src/app/tasks.py:310
ChunkSize == 2     \* stands for the slice width 50, src/app/tasks.py:335
NReq == 2          \* tracking requests in flight at once
PoolSize == 2      \* stands for CELERYD_CONCURRENCY = 8, src/config.py:18
NRows == 3         \* rows of the Email table where the schedulers run alone
NBeatRows == 4     \* rows of the Email table where beat runs alone

MaxRetries == 0    \* @shared_task(bind=True, max_retries=0)

Msgs == 1..NMsg
Ticks == 1..NTicks
Reqs == 1..NReq
Users == {1, 2}

NULL == <<>>       \* SQL NULL / Python None, for every nullable column

\* Email.campaign_id IS NULL (nullable, src/app/models.py:49): a row without
\* a campaign and so without an owner.  User ids start at 1.
NoOwner == 0

\* ------------------------------------------------------------ the data
\* Email.campaign.owner: rows 1 and 2 belong to user 1, any further row to
\* user 2.
Owner(m) == IF m <= 2 THEN 1 ELSE 2

\* Email.scheduled_time as composed: the time of composition, the first
\* clock reading.
InitialScheduledTime(m) == 0

VARIABLES
    store,     \* the Email table: one record per row
    settings,  \* the SMTPSettings table: the users that have a row
    clock,     \* the wall clock (datetime.utcnow / datetime.now)
    tick,      \* per scheduler_dispatcher execution: its local variables
    tasks,     \* the send_batch_task invocations, in the order of .delay()
    pp,        \* the process_pending_emails job of the in-process scheduler
    req,       \* tracking requests between their lookup and their commit
    sendLog,   \* history: the messages an execution has handed to the relay
    smtp,      \* history, kept by the specifications that observe the relay:
               \* what the task step just taken exchanged with it
    http       \* history: the tracking request that the step just taken
               \* answered, with its response

vars == <<store, settings, clock, tick, tasks, pp, req, sendLog, smtp, http>>

\* The pieces of an HTML body: running text, an anchor (marked as trackable
\* or not, with its destination), an image with its source.
Text == [tag |-> "text", trackable |-> FALSE, ref |-> <<"none">>]
Anchor(trackable, href) == [tag |-> "a", trackable |-> trackable, ref |-> href]
Img(src) == [tag |-> "img", trackable |-> FALSE, ref |-> src]

\* Email.body of the rows: row 1 has text, an anchor marked as trackable and
\* a plain anchor, the other rows text only.
Body(m) ==
    IF m = 1
    THEN <<Text, Anchor(TRUE, <<"url", 1>>), Anchor(FALSE, <<"url", 2>>)>>
    ELSE <<Text>>

\* A new Email row as compose() and the model defaults create it.
NewEmail(m) ==
    [owner |-> Owner(m),
     body |-> Body(m),
     status |-> "pending",
     scheduled_time |-> InitialScheduledTime(m),
     batch_id |-> NULL,
     rate_limit_retry_at |-> NULL,
     tracking_id |-> NULL,
     opened_at |-> NULL,
     clicked_at |-> NULL]

\* A scheduler_dispatcher execution that beat has not fired yet.
IdleTick ==
    [pc |-> "idle", now |-> 0, pending |-> {}, todo |-> <<>>,
     batch_counter |-> 0, result |-> "none"]

\* A scheduler_dispatcher execution that has returned result.
Returned(result) ==
    [pc |-> "returned", now |-> 0, pending |-> {}, todo |-> <<>>,
     batch_counter |-> 0, result |-> result]
IdlePP == [pc |-> "idle", todo |-> <<>>]
IdleReq == [pc |-> "idle"]

\* SMTPSettings.query.filter_by(user_id=user.id).first()
HasSettings(u) == u \in settings

\* SMTPSettings.query.first() of send_email: any row at all.
AnySettings == settings # {}

\* The settings screen has saved a row for every user, or for none yet.
Init ==
    /\ store = [m \in Msgs |-> NewEmail(m)]
    /\ settings \in {{}, Users}
    /\ clock = 0
    /\ tick = [t \in Ticks |-> IdleTick]
    /\ tasks = <<>>
    /\ pp = IdlePP
    /\ req = [r \in Reqs |-> IdleReq]
    /\ sendLog = {}
    /\ smtp = NULL
    /\ http = NULL

\* ------------------------------------------------------------- helpers
RECURSIVE SortedSeq(_)
SortedSeq(S) ==
    IF S = {} THEN <<>>
    ELSE LET x == CHOOSE x \in S : \A y \in S : x <= y
         IN <<x>> \o SortedSeq(S \ {x})

SeqSet(s) == {s[i] : i \in 1..Len(s)}

Min(a, b) == IF a <= b THEN a ELSE b

\* ------------------------------------------------------------ the clock
AdvanceClock ==
    /\ clock < MaxClock
    /\ clock' = clock + 1
    /\ UNCHANGED <<settings, store, tick, tasks, pp, req, sendLog>>

\* ------------------------------------------------- scheduler_dispatcher
\* The reclaim UPDATE: pending rows whose rate_limit_retry_at has passed.
Reclaim(s, now) ==
    [m \in DOMAIN s |->
        IF /\ s[m].status = "pending"
           /\ s[m].rate_limit_retry_at # NULL
           /\ s[m].rate_limit_retry_at[1] <= now
        THEN [s[m] EXCEPT !.rate_limit_retry_at = NULL]
        ELSE s[m]]

\* The filter of the eligibility query.
EligibleNoBatchCheck(s, now, m) ==
    /\ s[m].status = "pending"
    /\ s[m].scheduled_time <= now
    /\ s[m].rate_limit_retry_at = NULL

Eligible(s, now, m) ==
    /\ s[m].status = "pending"
    /\ s[m].scheduled_time <= now
    /\ s[m].rate_limit_retry_at = NULL
    /\ s[m].batch_id = NULL

\* The query without its .limit(2000).
SelectionsNoLimit(s, now) ==
    {{m \in DOMAIN s : Eligible(s, now, m)}}

\* .limit(2000).all() without ORDER BY: any SelectLimit of the eligible rows.
Selections(s, now) ==
    LET E == {m \in DOMAIN s : Eligible(s, now, m)}
    IN {S \in SUBSET E : Cardinality(S) = Min(SelectLimit, Cardinality(E))}

\* One list per user, whatever its length.
ChunksNoSlice(ids) == IF ids = <<>> THEN <<>> ELSE <<ids>>

\* range(0, len(ids), 50) and ids[i:i + 50]
RECURSIVE Chunks(_)
Chunks(ids) ==
    IF ids = <<>> THEN <<>>
    ELSE IF Len(ids) <= ChunkSize THEN <<ids>>
    ELSE <<SubSeq(ids, 1, ChunkSize)>> \o Chunks(SubSeq(ids, ChunkSize + 1, Len(ids)))

\* A grouping that puts every owned row into the list of every user.
UserIdsAnyOwner(s, S, u) == SortedSeq({m \in S : s[m].owner # NoOwner})

\* user_batches[uid]: the selected rows that have a campaign and an owner.
UserIds(s, S, u) == SortedSeq({m \in S : s[m].owner = u})

\* The two nested loops, flattened: (uid, chunk) in the order they are run.
RECURSIVE UserBatches(_, _, _)
UserBatches(s, S, us) ==
    IF us = <<>> THEN <<>>
    ELSE LET cs == Chunks(UserIds(s, S, Head(us)))
         IN [i \in 1..Len(cs) |-> [uid |-> Head(us), chunk |-> cs[i]]]
            \o UserBatches(s, S, Tail(us))

\* f"batch_{uid}_{now.timestamp()}_{batch_counter}"
BatchId(uid, now, counter) == <<uid, now, counter>>

\* Email.query.filter(Email.id.in_(chunk)).update({Email.batch_id: batch_id})
Stamp(s, chunk, bid) ==
    [m \in DOMAIN s |->
        IF m \in SeqSet(chunk) THEN [s[m] EXCEPT !.batch_id = bid] ELSE s[m]]

\* What send_batch_task.delay(chunk) puts on the queue.  retries is
\* self.request.retries.  batch_id and accepted are history: the task itself
\* receives the ids only, and accepted collects the rows of the run that the
\* relay has accepted.
NewTask(chunk, bid) ==
    [chunk |-> chunk, batch_id |-> bid, pc |-> "queued", idx |-> 0,
     loaded |-> <<>>, mem |-> <<>>, server |-> "none",
     rate_limited_count |-> 0, retries |-> 0, accepted |-> {},
     result |-> "none"]

\* A tick up to its eligibility query: reclaim (and its commit), the query,
\* the grouping.  Beat fires the executions in order: t starts after the
\* ones before it have started, whether or not they have returned.
TickSelect(t) ==
    /\ tick[t].pc = "idle"
    /\ \A u \in Ticks : u < t => tick[u].pc # "idle"
    /\ LET now == clock
           s1 == Reclaim(store, now)
       IN \E S \in Selections(s1, now) :
            LET ub == UserBatches(s1, S, SortedSeq(Users))
            IN /\ store' = s1
               /\ tick' = [tick EXCEPT ![t] =
                             IF S = {} THEN Returned("Idle")
                             ELSE IF ub = <<>> THEN Returned("Dispatched")
                             ELSE [pc |-> "dispatch", now |-> now, pending |-> S,
                                   todo |-> ub, batch_counter |-> 0,
                                   result |-> "none"]]
    /\ UNCHANGED <<settings, clock, tasks, pp, req, sendLog>>

\* One iteration of the chunk loop: the stamp, its commit, then .delay(chunk).
TickDispatch(t) ==
    /\ tick[t].pc = "dispatch"
    /\ LET b == Head(tick[t].todo)
           bid == BatchId(b.uid, tick[t].now, tick[t].batch_counter)
       IN /\ store' = Stamp(store, b.chunk, bid)
          /\ tasks' = Append(tasks, NewTask(b.chunk, bid))
          /\ tick' = [tick EXCEPT ![t] =
                        IF Len(tick[t].todo) = 1 THEN Returned("Dispatched")
                        ELSE [tick[t] EXCEPT !.todo = Tail(tick[t].todo),
                                             !.batch_counter = @ + 1]]
    /\ UNCHANGED <<settings, clock, pp, req, sendLog>>

\* ------------------------------------------------------ send_batch_task
\* str(uuid.uuid4()): a value no other assignment produces; k is the task
\* that draws it, m the row it is drawn for.
NewToken(k, m) == <<k, m>>

\* The ORM objects of Email.query.filter(Email.id.in_(email_ids)).all():
\* the attributes the task reads and writes, as the query found them.
Load(s, chunk) ==
    [i \in 1..Len(chunk) |->
        [status |-> s[chunk[i]].status,
         body |-> s[chunk[i]].body,
         tracking_id |-> s[chunk[i]].tracking_id,
         rate_limit_retry_at |-> s[chunk[i]].rate_limit_retry_at]]

\* The answers of the relay to one send_message: "ok" accepted, "rate"
\* rejected with a 451 / Ratelimit / quota text, "conn" a connection-level
\* failure (SMTPServerDisconnected, a socket error), "err" any other
\* exception (SMTPRecipientsRefused, SMTPDataError, ...).
Answers == {"ok", "rate", "conn", "err"}

\* The runs of safe_send that differ, as <<r1, rc, r2>>: r1 answers the first
\* send_message, rc says whether the reconnect succeeds, r2 answers the
\* send_message on the new connection.
SendScenarios ==
    {<<"ok", TRUE, "ok">>, <<"rate", TRUE, "ok">>}
        \cup {<<r1, FALSE, "ok">> : r1 \in {"conn", "err"}}
        \cup {<<r1, TRUE, r2>> : r1 \in {"conn", "err"}, r2 \in Answers}

\* The handle the loop holds is "live" (connected) or "closed" (quit() has
\* run on it).  send_message on a closed handle raises SMTPServerDisconnected
\* before anything is transmitted.
Scenarios(server) ==
    IF server = "closed" THEN {sc \in SendScenarios : sc[1] = "conn"}
    ELSE SendScenarios

\* safe_send that treats a quota rejection like any other exception.
SafeSendRetryOnRate(r1, rc, r2) ==
    IF r1 = "ok" THEN [result |-> "True", calls |-> 1, connects |-> 0, quit |-> FALSE]
    ELSE IF ~rc THEN [result |-> "False", calls |-> 1, connects |-> 1, quit |-> TRUE]
    ELSE IF r2 = "ok" THEN [result |-> "new_server", calls |-> 2, connects |-> 1, quit |-> TRUE]
    ELSE IF r2 = "rate" THEN [result |-> "rate_limit_sent", calls |-> 2, connects |-> 1, quit |-> TRUE]
    ELSE [result |-> "False", calls |-> 2, connects |-> 1, quit |-> TRUE]

\* safe_send that gives up after the first exception.
SafeSendNoRetry(r1, rc, r2) ==
    IF r1 = "ok" THEN [result |-> "True", calls |-> 1, connects |-> 0, quit |-> FALSE]
    ELSE IF r1 = "rate"
    THEN [result |-> "rate_limit_sent", calls |-> 1, connects |-> 0, quit |-> FALSE]
    ELSE [result |-> "False", calls |-> 1, connects |-> 0, quit |-> TRUE]

\* safe_send: its return value, the send_message calls it made, the
\* connections it opened, and whether it closed the handle it was given.
SafeSend(r1, rc, r2) ==
    IF r1 = "ok" THEN [result |-> "True", calls |-> 1, connects |-> 0, quit |-> FALSE]
    ELSE IF r1 = "rate"
    THEN [result |-> "rate_limit_sent", calls |-> 1, connects |-> 0, quit |-> FALSE]
    ELSE IF ~rc THEN [result |-> "False", calls |-> 1, connects |-> 1, quit |-> TRUE]
    ELSE IF r2 = "ok" THEN [result |-> "new_server", calls |-> 2, connects |-> 1, quit |-> TRUE]
    ELSE IF r2 = "rate" THEN [result |-> "rate_limit_sent", calls |-> 2, connects |-> 1, quit |-> TRUE]
    ELSE [result |-> "False", calls |-> 2, connects |-> 1, quit |-> TRUE]

\* The handle the loop holds after the call: "server = send_result" only when
\* a connection came back; a new connection that safe_send does not return is
\* dropped, and the loop keeps the handle safe_send has closed.
ServerAfter(server, res) ==
    IF res.result = "new_server" THEN "live"
    ELSE IF res.quit THEN "closed"
    ELSE server

\* The other policy for a quota rejection: leave the row pending for a later
\* run instead of marking it sent.
StatusForDefer(result) ==
    IF result \in {"True", "new_server"} THEN "sent"
    ELSE IF result = "rate_limit_sent" THEN "pending"
    ELSE "failed"

\* A loop that leaves a message it could not send for a later run.
StatusForRequeue(result) ==
    IF result \in {"True", "rate_limit_sent", "new_server"} THEN "sent"
    ELSE "pending"

\* The if / elif chain on send_result: the status the loop assigns.
StatusFor(result) ==
    IF result \in {"True", "rate_limit_sent", "new_server"} THEN "sent"
    ELSE "failed"

\* rate_limited_count += 1: in the rate_limit_sent branch only.
RateLimitedAlways(result) == TRUE

RateLimited(result) == result = "rate_limit_sent"

\* A loop that stops at the first message that fails.
NextPcAbort(i, n, result) ==
    IF i = n \/ result = "False" THEN "record" ELSE "loop"

\* "for email in emails" has no break: after message i of n comes message
\* i + 1, whatever the result of message i; after the last, "Save results".
NextPc(i, n, result) == IF i = n THEN "record" ELSE "loop"

\* The configuration branch marking the first object only.
FailFirst(s, chunk) ==
    [m \in DOMAIN s |->
        IF m = chunk[1] THEN [s[m] EXCEPT !.status = "failed"] ELSE s[m]]

\* for e in emails: e.status = "failed"; db.session.commit()
FailAll(s, chunk) ==
    [m \in DOMAIN s |->
        IF m \in SeqSet(chunk) THEN [s[m] EXCEPT !.status = "failed"] ELSE s[m]]

\* The tasks a pool process is executing.
Running == {k \in 1..Len(tasks) : tasks[k].pc \in {"loop", "record"}}

\* A task that has returned or raised: its session and its objects are gone.
Finished(t, pc, result) ==
    [t EXCEPT !.pc = pc, !.result = result, !.idx = 0,
              !.loaded = <<>>, !.mem = <<>>, !.server = "none",
              !.rate_limited_count = 0, !.accepted = {}]

\* self.retry(countdown=60): Celery queues the task again while
\* request.retries + 1 <= max_retries and raises MaxRetriesExceededError
\* otherwise.
Retry(t) ==
    IF t.retries + 1 > MaxRetries
    THEN Finished(t, "error", "MaxRetriesExceededError")
    ELSE [t EXCEPT !.retries = @ + 1]

\* The checks before the first connection, on emails[0]: the return value of
\* the branch that ends the task, or "connect" when the task goes on to
\* create_smtp_connection.
Prologue(s, chunk) ==
    IF s[chunk[1]].owner = NoOwner THEN "Invalid batch"
    ELSE IF ~HasSettings(s[chunk[1]].owner) THEN "Missing SMTP settings"
    ELSE "connect"

\* The task up to its loop: the load, the owner, the settings, the first
\* connection; connected says whether create_smtp_connection returns a server.
WorkerStart(k, connected) ==
    /\ tasks[k].pc = "queued"
    /\ Cardinality(Running) < PoolSize
    /\ LET chunk == tasks[k].chunk
           branch == Prologue(store, chunk)
       IN IF branch = "Invalid batch"
          THEN /\ tasks' = [tasks EXCEPT ![k] = Finished(@, "done", "Invalid batch")]
               /\ store' = store
          ELSE IF branch = "Missing SMTP settings"
          THEN /\ tasks' = [tasks EXCEPT ![k] =
                                 Finished(@, "done", "Missing SMTP settings")]
               /\ store' = FailAll(store, chunk)
          ELSE /\ tasks' = [tasks EXCEPT ![k] =
                              IF connected
                              THEN [@ EXCEPT !.pc = "loop", !.idx = 1,
                                             !.loaded = Load(store, chunk),
                                             !.mem = Load(store, chunk),
                                             !.server = "live"]
                              ELSE Retry(@)]
               /\ store' = store
    /\ UNCHANGED <<settings, clock, tick, pp, req, sendLog>>

\* "if not email.tracking_id: email.tracking_id = str(uuid.uuid4())": the
\* token of the object at position i of task k once the test has run.
TrackingId(k, i) ==
    IF tasks[k].mem[i].tracking_id = NULL THEN NewToken(k, tasks[k].chunk[i])
    ELSE tasks[k].mem[i].tracking_id

\* settings.signature or "": user 1 has a signature, user 2 has none.
Signature(u) == IF u = 1 THEN <<[tag |-> "signature", trackable |-> FALSE,
                                 ref |-> <<"user", u>>]>>
                ELSE <<>>

\* tracking_pixel: an <img> whose src is DOMAIN/track/<tracking_id>.
TrackingPixel(tok) == Img(<<"track", tok>>)

\* body_content: (email.body or "") + tracking_pixel + the signature, when
\* there is one, after a break.
BodyContent(body, tok, signature) ==
    body \o <<TrackingPixel(tok)>>
         \o (IF signature # <<>>
             THEN <<[tag |-> "br", trackable |-> FALSE, ref |-> <<"none">>]>>
                      \o signature
             ELSE <<>>)

\* The send_message calls of safe_send that reach the relay: all of them on a
\* live handle, all but the first on a closed one.
Attempts(server, res) ==
    IF server = "closed" THEN res.calls - 1 ELSE res.calls

\* One iteration of "for email in emails" with the relay answering sc: the
\* token, the send, the status.  Nothing is written to the table here: the
\* session is flushed after the loop.  A chunk of the dispatcher is shorter
\* than REFRESH_RATE = 500, so the periodic refresh does not run and server is
\* never None inside the loop.
WorkerSend(k, sc) ==
    /\ tasks[k].pc = "loop"
    /\ sc \in Scenarios(tasks[k].server)
    /\ LET t == tasks[k]
           i == t.idx
           m == t.chunk[i]
           tok == TrackingId(k, i)
           res == SafeSend(sc[1], sc[2], sc[3])
           ok == res.result \in {"True", "new_server"}
       IN /\ tasks' = [tasks EXCEPT ![k] =
               [@ EXCEPT !.mem[i].tracking_id = tok,
                         !.mem[i].status = StatusFor(res.result),
                         !.server = ServerAfter(t.server, res),
                         !.rate_limited_count =
                             IF RateLimited(res.result) THEN @ + 1 ELSE @,
                         !.accepted = IF ok THEN @ \cup {m} ELSE @,
                         !.idx = i + 1,
                         !.pc = NextPc(i, Len(t.chunk), res.result)]]
          /\ sendLog' = IF Attempts(t.server, res) > 0
                        THEN sendLog \cup
                             {[m |-> m, by |-> k, token |-> tok,
                               claimed |-> store[m].batch_id # NULL]}
                        ELSE sendLog
    /\ UNCHANGED <<settings, store, clock, tick, pp, req>>

\* The statements of the "Save results" block after the flush, in order.
Statements == <<"sent", "retry", "failed", "tracking">>

\* db.session.flush(): one UPDATE per object, of the attributes the loop
\* changed on it.
FlushRow(row, t, i) ==
    [row EXCEPT
        !.status = IF t.mem[i].status # t.loaded[i].status
                   THEN t.mem[i].status ELSE @,
        !.tracking_id = IF t.mem[i].tracking_id # t.loaded[i].tracking_id
                        THEN t.mem[i].tracking_id ELSE @,
        !.rate_limit_retry_at =
            IF t.mem[i].rate_limit_retry_at # t.loaded[i].rate_limit_retry_at
            THEN t.mem[i].rate_limit_retry_at ELSE @]

\* What the statement named st writes to the row of the object at position i.
StmtRow(row, t, i, st) ==
    IF st = "sent" THEN
        IF t.mem[i].status = "sent" THEN [row EXCEPT !.status = "sent"] ELSE row
    ELSE IF st = "retry" THEN
        IF t.mem[i].rate_limit_retry_at # NULL
        THEN [row EXCEPT !.rate_limit_retry_at = t.mem[i].rate_limit_retry_at]
        ELSE row
    ELSE IF st = "failed" THEN
        IF t.mem[i].status = "failed" THEN [row EXCEPT !.status = "failed"] ELSE row
    ELSE
        IF t.mem[i].tracking_id # NULL
        THEN [row EXCEPT !.tracking_id = t.mem[i].tracking_id]
        ELSE row

PosOf(chunk, m) == CHOOSE i \in 1..Len(chunk) : chunk[i] = m

\* The writes of the block, numbered: the UPDATE of the flush for each object,
\* then the statements.
NWrites(t) == Len(t.chunk) + Len(Statements)

ApplyWrite(s, t, n) ==
    [m \in DOMAIN s |->
        IF m \notin SeqSet(t.chunk) THEN s[m]
        ELSE IF n <= Len(t.chunk)
        THEN IF t.chunk[n] = m THEN FlushRow(s[m], t, n) ELSE s[m]
        ELSE StmtRow(s[m], t, PosOf(t.chunk, m), Statements[n - Len(t.chunk)])]

\* The table with the first n writes of the block applied.
RECURSIVE ApplyWrites(_, _, _)
ApplyWrites(s, t, n) ==
    IF n = 0 THEN s ELSE ApplyWrite(ApplyWrites(s, t, n - 1), t, n)

\* Every write takes effect at once and a failure leaves what ran before it.
RecordOutcomeAutocommit(s, t, failAt) ==
    IF failAt = 0 THEN ApplyWrites(s, t, NWrites(t))
    ELSE ApplyWrites(s, t, Min(failAt - 1, NWrites(t)))

\* The try block: failAt = 0 when nothing raises, n when write n raises,
\* NWrites + 1 when the commit raises.  One transaction: the commit publishes
\* every write, db.session.rollback() leaves the table as it is.
RecordOutcome(s, t, failAt) ==
    IF failAt = 0 THEN ApplyWrites(s, t, NWrites(t))
    ELSE s

\* The "Save results" block, then server.quit() and the return; or the
\* rollback and the re-raise.  failAt says where the block raises, 0 when it
\* does not.
WorkerRecord(k, failAt) ==
    /\ tasks[k].pc = "record"
    /\ failAt \in 0..(NWrites(tasks[k]) + 1)
    /\ store' = RecordOutcome(store, tasks[k], failAt)
    /\ tasks' = [tasks EXCEPT ![k] =
                   IF failAt = 0
                   THEN Finished(@, "done", "sent | failed")
                   ELSE [Finished(@, "error", "raised")
                            EXCEPT !.accepted = tasks[k].accepted]]
    /\ UNCHANGED <<settings, clock, tick, pp, req, sendLog>>

\* ----------------------------------------------- process_pending_emails
\* The query of the in-process scheduler: no batch_id and no
\* rate_limit_retry_at in its filter.
PPendingEmails(s, now) ==
    {m \in DOMAIN s : s[m].status = "pending" /\ s[m].scheduled_time <= now}

\* The job starts (schedule runs it every 10 s, one run at a time).
PPStart ==
    /\ pp.pc = "idle"
    /\ PPendingEmails(store, clock) # {}
    /\ pp' = [pc |-> "loop", todo |-> SortedSeq(PPendingEmails(store, clock))]
    /\ UNCHANGED <<settings, store, clock, tick, tasks, req, sendLog>>

\* send_email: False without any settings row or when connecting, logging in
\* or sending raises; True when the relay accepts.
SendEmailAnswers == {"ok", "connect_failed", "send_failed"}

\* SMTPSettings.query.first() of send_email, without ORDER BY: any row of
\* the table, whoever it belongs to, or None (NoOwner) when the table is
\* empty.
FirstSettings == IF AnySettings THEN settings ELSE {NoOwner}

\* One iteration: send_email, the status, the commit (an UPDATE of status
\* only).  u is the user whose settings row send_email finds, r what the
\* relay answers when send_email gets to it.
PPSend(r, u) ==
    /\ pp.pc = "loop"
    /\ r \in SendEmailAnswers
    /\ u \in FirstSettings
    /\ LET m == Head(pp.todo)
           attempted == u # NoOwner /\ r # "connect_failed"
           success == u # NoOwner /\ r = "ok"
       IN /\ store' = [store EXCEPT ![m].status =
                          IF success THEN "sent" ELSE "failed"]
          /\ sendLog' = IF attempted
                        THEN sendLog \cup
                             {[m |-> m, by |-> 0, token |-> NULL,
                               claimed |-> store[m].batch_id # NULL]}
                        ELSE sendLog
    /\ pp' = IF Len(pp.todo) = 1 THEN IdlePP
             ELSE [pp EXCEPT !.todo = Tail(pp.todo)]
    /\ UNCHANGED <<settings, clock, tick, tasks, req>>

\* -------------------------------------------------- tracking endpoints
\* The tokens a mail client can hold: every token a task has put into a body.
IssuedTokens ==
    {e.token : e \in sendLog} \ {NULL}

\* A token no row holds.
UnknownToken == <<0, 0>>

\* A lookup that takes any row that has a token.
LookupAnyToken(s, tok) == {m \in DOMAIN s : s[m].tracking_id # NULL}

\* Email.query.filter_by(tracking_id=tracking_id).first()
Lookup(s, tok) == {m \in DOMAIN s : s[m].tracking_id = tok}

\* datetime.utcnow()
Now == <<clock>>

\* The tokens a request can carry: any that a mail client holds, or one that
\* nobody issued.
RequestTokens == IssuedTokens \cup {UnknownToken}

\* request.args.get('url'): None without the parameter ("absent"), the empty
\* string for "?url=" ("empty"), or a destination ("target").
Urls == {"absent", "empty", "target"}

\* "not target_url": None and the empty string alike.
NoTarget(url) == url \in {"absent", "empty"}

\* What a handler returns for a request: kind is the endpoint, tok the token
\* of the path, url the url of the query string, resp the response:
\* "pixel" the 1x1 GIF, "redirect" redirect(target_url), "400" the
\* ("Invalid URL", 400) pair.
Response(kind, tok, url, resp) ==
    [kind |-> kind, tok |-> tok, url |-> url, resp |-> resp]

\* "if email and not email.opened_at": the rows track_email_open writes.
OpenWrites(s, tok) == {m \in Lookup(s, tok) : s[m].opened_at = NULL}

\* track_email_open up to its commit: the lookup and the test of opened_at.
\* Without a row, or with opened_at set, the handler only returns the pixel.
OpenLookup(r, tok) ==
    /\ req[r].pc = "idle"
    /\ IF OpenWrites(store, tok) = {}
       THEN /\ http' = Response("open", tok, "absent", "pixel")
            /\ UNCHANGED req
       ELSE /\ \E m \in OpenWrites(store, tok) :
                 req' = [req EXCEPT ![r] =
                           [pc |-> "open", m |-> m, tok |-> tok,
                            opened_at |-> Now, set_opened |-> TRUE]]
            /\ http' = NULL
    /\ UNCHANGED <<settings, store, clock, tick, tasks, pp, sendLog>>

\* The commit of track_email_open, UPDATE email SET opened_at, and the pixel.
OpenCommit(r) ==
    /\ req[r].pc = "open"
    /\ store' = [store EXCEPT ![req[r].m].opened_at = req[r].opened_at]
    /\ req' = [req EXCEPT ![r] = IdleReq]
    /\ http' = Response("open", req[r].tok, "absent", "pixel")
    /\ UNCHANGED <<settings, clock, tick, tasks, pp, sendLog>>

\* The first-click branch without "clicking implies opening".
ClickWritesNoOpen(row, now) ==
    [clicked_at |-> now, opened_at |-> now, set_opened |-> FALSE]

\* The first-click branch of track_click: clicked_at, and opened_at when the
\* row read has none.
ClickWrites(row, now) ==
    [clicked_at |-> now, opened_at |-> now, set_opened |-> row.opened_at = NULL]

\* track_click that looks the token up before it tests the url.
ClickBranchLookupFirst(s, tok, url) ==
    IF \E m \in Lookup(s, tok) : s[m].clicked_at = NULL THEN "write"
    ELSE IF NoTarget(url) THEN "400"
    ELSE "redirect"

\* The path track_click takes: the 400 without a url, the first-click branch
\* for a row whose clicked_at is None, the plain redirect otherwise.
ClickBranch(s, tok, url) ==
    IF NoTarget(url) THEN "400"
    ELSE IF \E m \in Lookup(s, tok) : s[m].clicked_at = NULL THEN "write"
    ELSE "redirect"

\* track_click up to its commit or, on the paths that write nothing, to its
\* return.
ClickLookup(r, tok, url) ==
    /\ req[r].pc = "idle"
    /\ IF ClickBranch(store, tok, url) = "write"
       THEN /\ \E m \in Lookup(store, tok) :
                 req' = [req EXCEPT ![r] =
                           [pc |-> "click", m |-> m, tok |-> tok, url |-> url]
                               @@ ClickWrites(store[m], Now)]
            /\ http' = NULL
       ELSE /\ http' = Response("click", tok, url, ClickBranch(store, tok, url))
            /\ UNCHANGED req
    /\ UNCHANGED <<settings, store, clock, tick, tasks, pp, sendLog>>

\* The commit of track_click, UPDATE email SET the attributes it assigned,
\* and the redirect.
ClickCommit(r) ==
    /\ req[r].pc = "click"
    /\ store' = [store EXCEPT
                    ![req[r].m].clicked_at = req[r].clicked_at,
                    ![req[r].m].opened_at =
                        IF req[r].set_opened THEN req[r].opened_at ELSE @]
    /\ req' = [req EXCEPT ![r] = IdleReq]
    /\ http' = Response("click", req[r].tok, req[r].url, "redirect")
    /\ UNCHANGED <<settings, clock, tick, tasks, pp, sendLog>>

\* ------------------------------------------------------ specification
\* The pipeline: the beat task, the pool, the in-process scheduler.
Next ==
    \/ AdvanceClock /\ UNCHANGED <<smtp, http>>
    \/ \E t \in Ticks : TickSelect(t) /\ UNCHANGED <<smtp, http>>
    \/ \E t \in Ticks : TickDispatch(t) /\ UNCHANGED <<smtp, http>>
    \/ \E k \in 1..Len(tasks), connected \in BOOLEAN :
           WorkerStart(k, connected) /\ UNCHANGED <<smtp, http>>
    \/ \E k \in 1..Len(tasks), sc \in SendScenarios :
           WorkerSend(k, sc) /\ UNCHANGED <<smtp, http>>
    \/ \E k \in 1..Len(tasks) : \E failAt \in 0..(NWrites(tasks[k]) + 1) :
           WorkerRecord(k, failAt) /\ UNCHANGED <<smtp, http>>
    \/ PPStart /\ UNCHANGED <<smtp, http>>
    \/ \E r \in SendEmailAnswers, u \in FirstSettings :
           PPSend(r, u) /\ UNCHANGED <<smtp, http>>

Spec == Init /\ [][Next]_vars

\* The tracking endpoints, with one beat task at a time feeding the pool.
\* The endpoints write opened_at and clicked_at only, and nothing else of the
\* program reads or writes these two columns.
NextTrack ==
    \/ AdvanceClock /\ UNCHANGED smtp /\ http' = NULL
    \/ TickSelect(1) /\ UNCHANGED smtp /\ http' = NULL
    \/ TickDispatch(1) /\ UNCHANGED smtp /\ http' = NULL
    \/ \E k \in 1..Len(tasks), connected \in BOOLEAN :
           WorkerStart(k, connected) /\ UNCHANGED smtp /\ http' = NULL
    \/ \E k \in 1..Len(tasks), sc \in SendScenarios :
           WorkerSend(k, sc) /\ UNCHANGED smtp /\ http' = NULL
    \/ \E k \in 1..Len(tasks) : \E failAt \in 0..(NWrites(tasks[k]) + 1) :
           WorkerRecord(k, failAt) /\ UNCHANGED smtp /\ http' = NULL
    \/ \E r \in Reqs, tok \in RequestTokens :
           OpenLookup(r, tok) /\ UNCHANGED smtp
    \/ \E r \in Reqs : OpenCommit(r) /\ UNCHANGED smtp
    \/ \E r \in Reqs, tok \in RequestTokens, url \in Urls :
           ClickLookup(r, tok, url) /\ UNCHANGED smtp
    \/ \E r \in Reqs : ClickCommit(r) /\ UNCHANGED smtp

SpecTrack == Init /\ [][NextTrack]_vars

\* What a step of the task exchanged with the relay: the answers it got, the
\* send_message calls that reached the relay, the connections it opened.
Exchange(k, m, r1, rc, r2, attempts, connects) ==
    [by |-> k, m |-> m, r1 |-> r1, rc |-> rc, r2 |-> r2,
     attempts |-> attempts, connects |-> connects]

\* The connections a step opened (create_smtp_connection returned a
\* server) and the ones it closed (quit() on a handle that was live).
Connections(opened, closed) == [opened |-> opened, closed |-> closed]

\* The exchange of WorkerStart(k, connected): one connection when the task
\* gets as far as create_smtp_connection.
StartExchange(k, connected) ==
    IF Prologue(store, tasks[k].chunk) = "connect"
    THEN Connections(IF connected THEN 1 ELSE 0, 0)
             @@ Exchange(k, 0, "none", connected, "none", 0, 1)
    ELSE NULL

\* The exchange of WorkerSend(k, sc), with the body of the MIME message the
\* step handed to send_message.
SendExchange(k, sc) ==
    LET t == tasks[k]
        m == t.chunk[t.idx]
        res == SafeSend(sc[1], sc[2], sc[3])
    IN [body |-> BodyContent(t.mem[t.idx].body, TrackingId(k, t.idx),
                             Signature(store[m].owner))]
           @@ Connections(IF res.connects = 1 /\ sc[2] THEN 1 ELSE 0,
                          IF res.quit /\ t.server = "live" THEN 1 ELSE 0)
           @@ Exchange(k, m, sc[1], sc[2], sc[3],
                       Attempts(t.server, res), res.connects)

\* The exchange of WorkerRecord(k, failAt): server.quit() after the block,
\* which the re-raise of a failed block does not reach.
RecordExchange(k, failAt) ==
    Connections(0, IF failAt = 0 /\ tasks[k].server = "live" THEN 1 ELSE 0)
        @@ Exchange(k, 0, "none", FALSE, "none", 0, 0)

\* The Celery side alone, observed at the relay: one beat task feeding the
\* pool.  Beat fires and the pool runs what is queued: a step that stays
\* possible is taken.
NextBatch ==
    \/ AdvanceClock /\ smtp' = NULL /\ UNCHANGED http
    \/ TickSelect(1) /\ smtp' = NULL /\ UNCHANGED http
    \/ TickDispatch(1) /\ smtp' = NULL /\ UNCHANGED http
    \/ \E k \in 1..Len(tasks), connected \in BOOLEAN :
           WorkerStart(k, connected) /\ smtp' = StartExchange(k, connected) /\ UNCHANGED http
    \/ \E k \in 1..Len(tasks), sc \in SendScenarios :
           WorkerSend(k, sc) /\ smtp' = SendExchange(k, sc) /\ UNCHANGED http
    \/ \E k \in 1..Len(tasks) : \E failAt \in 0..(NWrites(tasks[k]) + 1) :
           WorkerRecord(k, failAt) /\ smtp' = RecordExchange(k, failAt)
                                   /\ UNCHANGED http

SpecBatch == Init /\ [][NextBatch]_vars /\ WF_vars(NextBatch)

\* send_batch_task as a Celery task of its own: it runs on whatever id list
\* a message on the queue carries, over a table in which campaign_id may be
\* NULL (src/app/models.py:49).
IdLists ==
    {ids \in UNION {[1..n -> Msgs] : n \in 1..ChunkSize} :
        \A i, j \in 1..Len(ids) : i # j => ids[i] # ids[j]}

InitTask ==
    /\ store \in {[m \in Msgs |-> [NewEmail(m) EXCEPT !.owner = own[m]]] :
                    own \in [Msgs -> {NoOwner} \cup Users]}
    /\ settings \in {{}, Users}
    /\ clock = 0
    /\ tick = [t \in Ticks |-> IdleTick]
    /\ tasks \in {<<NewTask(ids, NULL)>> : ids \in IdLists}
    /\ pp = IdlePP
    /\ req = [r \in Reqs |-> IdleReq]
    /\ sendLog = {}
    /\ smtp = NULL
    /\ http = NULL

NextTask ==
    \/ \E k \in 1..Len(tasks), connected \in BOOLEAN :
           WorkerStart(k, connected) /\ smtp' = StartExchange(k, connected) /\ UNCHANGED http
    \/ \E k \in 1..Len(tasks), sc \in SendScenarios :
           WorkerSend(k, sc) /\ smtp' = SendExchange(k, sc) /\ UNCHANGED http
    \/ \E k \in 1..Len(tasks) : \E failAt \in 0..(NWrites(tasks[k]) + 1) :
           WorkerRecord(k, failAt) /\ smtp' = RecordExchange(k, failAt)
                                   /\ UNCHANGED http

SpecTask == InitTask /\ [][NextTask]_vars

\* The batch_id of a dispatch that happened before the first clock reading.
EarlierBatch == BatchId(1, -1, 0)

\* A row as the deferral branch of send_batch_task leaves it (status and
\* batch_id untouched, rate_limit_retry_at set), with the stamp of its
\* dispatch or without one (batch_id and rate_limit_retry_at are independent
\* nullable columns).
Deferred(row, at, bid) ==
    [row EXCEPT !.rate_limit_retry_at = <<at>>, !.batch_id = bid]

\* The rows the schedulers can find: composed rows of either user or of no
\* campaign, due now or at the last clock reading, and deferred rows whose
\* retry time passes at the last clock reading.
RowKinds ==
    {[NewEmail(1) EXCEPT !.owner = u] : u \in {NoOwner} \cup Users}
        \cup {[NewEmail(1) EXCEPT !.scheduled_time = MaxClock]}
        \cup {Deferred(NewEmail(1), MaxClock, bid) : bid \in {NULL, EarlierBatch}}

InitDispatch ==
    /\ store \in [1..NRows -> RowKinds]
    /\ settings \in {{}, Users}
    /\ clock = 0
    /\ tick = [t \in Ticks |-> IdleTick]
    /\ tasks = <<>>
    /\ pp = IdlePP
    /\ req = [r \in Reqs |-> IdleReq]
    /\ sendLog = {}
    /\ smtp = NULL
    /\ http = NULL

\* What an iteration of process_pending_emails did: the row, the user whose
\* settings send_email took, the answer of the relay.
PPExchange(r, u) == [by |-> 0, m |-> Head(pp.todo), r |-> r, via |-> u]

\* The two schedulers alone, the beat task and the in-process job, over such
\* a table: what is dispatched stays on the queue.
NextDispatch ==
    \/ AdvanceClock /\ smtp' = NULL /\ UNCHANGED http
    \/ \E t \in Ticks : TickSelect(t) /\ smtp' = NULL /\ UNCHANGED http
    \/ \E t \in Ticks : TickDispatch(t) /\ smtp' = NULL /\ UNCHANGED http
    \/ PPStart /\ smtp' = NULL /\ UNCHANGED http
    \/ \E r \in SendEmailAnswers, u \in FirstSettings :
           PPSend(r, u) /\ smtp' = PPExchange(r, u) /\ UNCHANGED http

SpecDispatch == InitDispatch /\ [][NextDispatch]_vars

\* retry_task: the row with this id in a campaign of the logged-in user
\* (first_or_404, so a row without a campaign is not found), whatever its
\* status; status and scheduled_time are set, batch_id is left as it is.
RetryTask(m) ==
    /\ m \in DOMAIN store
    /\ store[m].owner # NoOwner
    /\ store' = [store EXCEPT ![m].status = "pending",
                              ![m].scheduled_time = clock]
    /\ UNCHANGED <<settings, clock, tick, tasks, pp, req, sendLog>>

\* CELERY_BEAT_SCHEDULE: beat sends scheduler_dispatcher again every 10
\* seconds; here after the execution before it has returned.
BeatAgain ==
    /\ tick[1].pc = "returned"
    /\ tick' = [tick EXCEPT ![1] = IdleTick]
    /\ UNCHANGED <<settings, store, clock, tasks, pp, req, sendLog>>

\* The rows beat can find: composed rows of either user or of no campaign,
\* a deferred row whose retry time passes at the last clock reading, and a
\* row of an earlier batch that its task has left failed.
BeatRowKinds ==
    {[NewEmail(1) EXCEPT !.owner = u] : u \in {NoOwner} \cup Users}
        \cup {Deferred(NewEmail(1), MaxClock, NULL)}
        \cup {[NewEmail(1) EXCEPT !.status = "failed",
                                  !.batch_id = EarlierBatch]}

InitBeat ==
    /\ store \in [1..NBeatRows -> BeatRowKinds]
    /\ settings = Users
    /\ clock = 0
    /\ tick = [t \in Ticks |-> IdleTick]
    /\ tasks = <<>>
    /\ pp = IdlePP
    /\ req = [r \in Reqs |-> IdleReq]
    /\ sendLog = {}
    /\ smtp = NULL
    /\ http = NULL

\* The steps of the beat task, one execution after the other.
Beat ==
    \/ TickSelect(1) /\ UNCHANGED <<smtp, http>>
    \/ TickDispatch(1) /\ UNCHANGED <<smtp, http>>
    \/ BeatAgain /\ UNCHANGED <<smtp, http>>

\* Periodic beat alone, with users retrying rows from the task list: what is
\* dispatched stays on the queue.
NextBeat ==
    \/ Beat
    \/ AdvanceClock /\ UNCHANGED <<smtp, http>>
    \/ \E m \in DOMAIN store : RetryTask(m) /\ UNCHANGED <<smtp, http>>

\* Beat keeps firing: an execution does not wait to start for ever.  This is
\* the weak fairness of TickSelect(1), which is enabled exactly while the
\* execution is idle (the query always has a result, if only the empty one)
\* and is the only step that ends the wait.
BeatFires == []<>(tick[1].pc # "idle")

\* Beat keeps firing, an execution that has started runs to its return, and
\* beat sends the next one.
SpecBeat ==
    /\ InitBeat /\ [][NextBeat]_vars
    /\ BeatFires
    /\ WF_vars(TickDispatch(1) /\ UNCHANGED <<smtp, http>>)
    /\ WF_vars(BeatAgain /\ UNCHANGED <<smtp, http>>)

\* ------------------------------------------------------------- claims
TasksOf(m) == {k \in 1..Len(tasks) : m \in SeqSet(tasks[k].chunk)}

SendersOf(m) == {e.by : e \in {x \in sendLog : x.m = m}}

\* C1: with overlapping ticks no message id is stamped with two different
\* batch ids, and no message id is handed to send_batch_task in two batches.
C1_NoDoubleClaim ==
    \A m \in Msgs :
        /\ Cardinality(TasksOf(m)) <= 1
        /\ Cardinality({tasks[k].batch_id : k \in TasksOf(m)}) <= 1

\* C2: over every interleaving of ticks, workers and process_pending_emails,
\* at most one execution makes a relay send attempt for a message.
C2_AtMostOneSender ==
    \A m \in Msgs : Cardinality(SendersOf(m)) <= 1

\* C3: a batch id, once stamped, stays, and the eligibility query of a tick
\* returns no row that carries a batch id when the query runs; so a stamped
\* row is never selected again, whatever its worker has or has not done.
C3_StampedNeverReselected ==
    [][/\ \A m \in Msgs :
            store[m].batch_id # NULL => store'[m].batch_id # NULL
       /\ \A t \in Ticks :
            (tick[t].pc = "idle" /\ tick'[t].pc = "dispatch")
                => \A m \in tick'[t].pending : store[m].batch_id = NULL]_vars

\* A tick ran its eligibility query and found nothing, although every row is
\* still pending: each row carried a batch id when the query ran.
C3_Witness ==
    /\ \E t \in Ticks : tick[t].pc = "returned" /\ tick[t].result = "Idle"
    /\ \A m \in Msgs : store[m].status = "pending" /\ store[m].batch_id # NULL

\* C4: every relay send attempt is made for a row whose batch_id was non-null
\* in the table when the attempt began.
C4_ClaimBeforeSend ==
    \A e \in sendLog : e.claimed

\* C5: no step of the scheduler or of the worker takes a row whose status is
\* sent or failed back to pending.
C5_TerminalStaysTerminal ==
    [][\A m \in Msgs :
          store[m].status # "pending" => store'[m].status # "pending"]_vars

\* A worker is about to record its outcome for a row that was already sent or
\* failed when it loaded it.
C5_Witness ==
    \E k \in 1..Len(tasks) :
        /\ tasks[k].pc = "record"
        /\ \E i \in 1..Len(tasks[k].loaded) :
              /\ tasks[k].loaded[i].status # "pending"
              /\ store[tasks[k].chunk[i]].status # "pending"

\* C6: the pipeline only moves a status from pending to sent or to failed: a
\* stored sent never becomes failed, a stored failed never becomes sent, and a
\* worker makes a send attempt only for a row it loaded as pending.
C6_OnlyFromPending ==
    [][/\ \A m \in Msgs :
            /\ store[m].status = "sent" => store'[m].status # "failed"
            /\ store[m].status = "failed" => store'[m].status # "sent"
       /\ \A k \in 1..Len(tasks) :
            (tasks[k].pc = "loop" /\ tasks'[k].idx # tasks[k].idx)
                => tasks[k].loaded[tasks[k].idx].status = "pending"]_vars

\* C7: every row whose stored status is sent has a stored tracking token.
C7_SentImpliesToken ==
    \A m \in Msgs : store[m].status = "sent" => store[m].tracking_id # NULL

\* C8: every row with a clicked_at has an opened_at, after any interleaving of
\* beacon and click requests.
C8_ClickImpliesOpen ==
    \A m \in Msgs : store[m].clicked_at # NULL => store[m].opened_at # NULL

\* A click has been recorded.
C8_Witness ==
    \E m \in Msgs : store[m].clicked_at # NULL

\* Every status and token the loop assigned is what the table holds.
OutcomeVisible(s, t) ==
    \A i \in 1..Len(t.chunk) :
        /\ s[t.chunk[i]].status = t.mem[i].status
        /\ s[t.chunk[i]].tracking_id = t.mem[i].tracking_id

\* C9: the recording step of a task leaves the table either with every status
\* and token of the batch's outcome, or exactly as it was.
C9_AllOrNothing ==
    [][\A k \in 1..Len(tasks) :
          (tasks[k].pc = "record" /\ tasks'[k].pc # "record")
              => (OutcomeVisible(store', tasks[k]) \/ store' = store)]_vars

\* A task has recorded a batch of two rows, one sent and one failed.
C9_Witness ==
    \E k \in 1..Len(tasks) :
        /\ tasks[k].result = "sent | failed"
        /\ Len(tasks[k].chunk) > 1
        /\ store[tasks[k].chunk[1]].status = "sent"
        /\ store[tasks[k].chunk[2]].status = "failed"

\* C10: when the outcome commit fails the task ends in error, and status,
\* token and rate_limit_retry_at of every row of the batch are what the task
\* loaded when it started.
C10_FailedCommitRestores ==
    [][\A k \in 1..Len(tasks) :
          (tasks[k].pc = "record" /\ tasks'[k].result = "raised")
              => /\ tasks'[k].pc = "error"
                 /\ \A i \in 1..Len(tasks[k].chunk) :
                      LET row == store'[tasks[k].chunk[i]]
                          was == tasks[k].loaded[i]
                      IN /\ row.status = was.status
                         /\ row.tracking_id = was.tracking_id
                         /\ row.rate_limit_retry_at = was.rate_limit_retry_at]_vars

\* C11: once the outcome commit of a batch has failed, no execution hands a
\* row of that batch that the relay had accepted to the relay again.
C11_NoResendAfterFailedCommit ==
    [][\A k \in 1..Len(tasks) :
          tasks[k].result = "raised"
              => \A e \in sendLog' \ sendLog : e.m \notin tasks[k].accepted]_vars

\* A step of the task on the queued batch k / in the loop of batch k.
StartStep(k) == tasks[k].pc = "queued" /\ tasks'[k] # tasks[k]

SendStep(k) == tasks[k].pc = "loop" /\ tasks'[k].idx = tasks[k].idx + 1

\* The exchange x held a quota rejection / ended in a failure that was not one.
Quota(x) == x.r1 = "rate" \/ (x.r1 \in {"conn", "err"} /\ x.rc /\ x.r2 = "rate")

FailedTwice(x) ==
    x.r1 \in {"conn", "err"} /\ (~x.rc \/ x.r2 \in {"conn", "err"})

\* C12: the step of send_batch_task on a batch whose owner has no settings
\* row marks every row of the batch failed, opens no connection, hands
\* nothing to the relay and ends the task; a task that has ended never runs
\* again.
C12_NoSettingsFailsAll ==
    [][\A k \in 1..Len(tasks) :
          /\ (StartStep(k) /\ ~HasSettings(store[tasks[k].chunk[1]].owner))
                => /\ tasks'[k].pc = "done"
                   /\ tasks'[k].result = "Missing SMTP settings"
                   /\ \A m \in SeqSet(tasks[k].chunk) : store'[m].status = "failed"
                   /\ sendLog' = sendLog
                   /\ smtp' = NULL
          /\ tasks[k].pc \in {"done", "error"} => tasks'[k] = tasks[k]]_vars

\* A batch of two rows has ended on the missing settings and both rows are
\* failed.
C12_Witness ==
    \E k \in 1..Len(tasks) :
        /\ tasks[k].result = "Missing SMTP settings"
        /\ Len(tasks[k].chunk) > 1
        /\ \A m \in SeqSet(tasks[k].chunk) : store[m].status = "failed"
        /\ sendLog = {}

\* C13: a task that ended because its first row has no owner has marked every
\* row of its batch failed.
C13_NoOwnerFailsAll ==
    \A k \in 1..Len(tasks) :
        tasks[k].result = "Invalid batch"
            => \A m \in SeqSet(tasks[k].chunk) : store[m].status = "failed"

\* The first connection of batch k could not be opened and the task gave up.
GaveUp(k) == tasks[k].result = "MaxRetriesExceededError"

\* C14: a batch whose first connection cannot be opened does not stay pending
\* forever: once the task has given up, every row of the batch gets failed.
C14_ConnectFailureEndsFailed ==
    (\E k \in 1..Len(tasks) : GaveUp(k))
        ~> (\A k \in 1..Len(tasks) :
               GaveUp(k) =>
                   \A m \in SeqSet(tasks[k].chunk) : store[m].status = "failed")

\* C15: a task gives up on the first connection only after the batch has been
\* executed again at least once.
C15_RetriedBeforeGivingUp ==
    \A k \in 1..Len(tasks) : GaveUp(k) => tasks[k].retries >= 1

\* C16: a quota rejection marks its message sent, adds one to
\* rate_limited_count and leaves the loop running; an accepted message is sent
\* and adds nothing; and the recording step stores every status of the loop.
C16_QuotaRejectionCountsAsSent ==
    [][\A k \in 1..Len(tasks) :
          /\ SendStep(k) =>
                LET i == tasks[k].idx
                    n == Len(tasks[k].chunk)
                IN /\ Quota(smtp') =>
                        /\ tasks'[k].mem[i].status = "sent"
                        /\ tasks'[k].rate_limited_count =
                               tasks[k].rate_limited_count + 1
                        /\ tasks'[k].pc = IF i = n THEN "record" ELSE "loop"
                   /\ ~Quota(smtp') =>
                        tasks'[k].rate_limited_count = tasks[k].rate_limited_count
                   /\ smtp'.r1 = "ok" => tasks'[k].mem[i].status = "sent"
          /\ (tasks[k].pc = "record" /\ tasks'[k].pc = "done")
                => \A i \in 1..Len(tasks[k].chunk) :
                      store'[tasks[k].chunk[i]].status = tasks[k].mem[i].status]_vars

\* The loop of a batch of two rows has ended with one quota rejection and one
\* accepted message: both rows are sent and the counter is one.
C16_Witness ==
    \E k \in 1..Len(tasks) :
        /\ tasks[k].pc = "record"
        /\ Len(tasks[k].chunk) > 1
        /\ tasks[k].rate_limited_count = 1
        /\ Cardinality(tasks[k].accepted) = 1
        /\ \A i \in 1..Len(tasks[k].chunk) : tasks[k].mem[i].status = "sent"

\* C17: a send_message answered with a quota rejection is the last one of its
\* message in the run, the message is marked sent, and no step of the task
\* sets rate_limit_retry_at, in its objects or in the table.
C17_NoRetryAfterQuota ==
    [][/\ \A k \in 1..Len(tasks) :
            (SendStep(k) /\ Quota(smtp')) =>
                LET i == tasks[k].idx
                IN /\ smtp'.r1 = "rate" => smtp'.attempts = 1
                   /\ smtp'.attempts <= 2
                   /\ tasks'[k].mem[i].status = "sent"
                   /\ tasks'[k].mem[i].rate_limit_retry_at = NULL
       /\ \A m \in Msgs :
            store'[m].rate_limit_retry_at = store[m].rate_limit_retry_at]_vars

\* The relay has just answered the first send_message of a message with a
\* quota rejection.
C17_Witness ==
    smtp # NULL /\ smtp.r1 = "rate" /\ smtp.attempts = 1

C19_OtherRejectionFails ==
    [][\A k \in 1..Len(tasks) :
          (SendStep(k) /\ smtp'.r1 = "err")
              => tasks'[k].mem[tasks[k].idx].status = "failed"]_vars

\* C20: the loop handles each message by itself and goes through all of them:
\* a step changes the object of its own message only, marks it failed only
\* when its own exchange failed, and is followed by the next message until
\* the last; a message met with a closed handle gets a new connection and,
\* when that opens, its send attempt, and it is sent when the relay accepts it.
C20_LaterMessagesStillAttempted ==
    [][\A k \in 1..Len(tasks) :
          SendStep(k) =>
              LET i == tasks[k].idx
                  n == Len(tasks[k].chunk)
              IN /\ \A j \in 1..n :
                      j # i => tasks'[k].mem[j] = tasks[k].mem[j]
                 /\ tasks'[k].pc = IF i = n THEN "record" ELSE "loop"
                 /\ tasks'[k].mem[i].status = "failed" => FailedTwice(smtp')
                 /\ tasks[k].server = "closed" =>
                      /\ smtp'.connects = 1
                      /\ smtp'.rc => smtp'.attempts = 1
                      /\ (smtp'.rc /\ smtp'.r2 = "ok") =>
                            /\ tasks'[k].mem[i].status = "sent"
                            /\ tasks'[k].server = "live"]_vars

\* The first message of a batch failed twice and left a closed handle; the
\* second message has been sent on a new connection.
C20_Witness ==
    /\ smtp # NULL
    /\ \E k \in 1..Len(tasks) :
          /\ tasks[k].pc = "record"
          /\ Len(tasks[k].chunk) > 1
          /\ tasks[k].mem[1].status = "failed"
          /\ tasks[k].mem[2].status = "sent"
          /\ smtp.by = k /\ smtp.r1 = "conn" /\ smtp.attempts = 1
          /\ tasks[k].server = "live"

C22_StampedWereSelected ==
    [][\A t \in Ticks :
         /\ (tick[t].pc = "idle" /\ tick'[t].pc # "idle") =>
               /\ Cardinality(tick'[t].pending) <= SelectLimit
               /\ \A m \in tick'[t].pending :
                     /\ store'[m].status = "pending"
                     /\ store'[m].scheduled_time <= clock
                     /\ store'[m].rate_limit_retry_at = NULL
                     /\ store'[m].batch_id = NULL
         /\ (tick[t].pc = "dispatch" /\ tick'[t] # tick[t]) =>
               /\ tasks' = Append(tasks, tasks'[Len(tasks')])
               /\ SeqSet(tasks'[Len(tasks')].chunk) \subseteq tick[t].pending
               /\ \A m \in DOMAIN store :
                     store'[m].batch_id # store[m].batch_id
                        => m \in SeqSet(tasks'[Len(tasks')].chunk)
               /\ tick'[t].pc = "dispatch" => tick'[t].pending = tick[t].pending]_vars

\* A tick in its chunk loop that has stamped a chunk, whose selection took
\* SelectLimit rows and left behind a row that was eligible as well.
C22_Witness ==
    \E t \in Ticks :
        /\ tick[t].pc = "dispatch"
        /\ Cardinality(tick[t].pending) = SelectLimit
        /\ \E m \in tick[t].pending : store[m].batch_id = BatchId(store[m].owner, tick[t].now, 0)
        /\ \E m \in DOMAIN store \ tick[t].pending : Eligible(store, tick[t].now, m)

\* C23: every batch handed to send_batch_task holds rows of exactly one
\* owner: no two rows of a chunk have different campaign owners, and none is
\* without an owner.
C23_OneOwnerPerBatch ==
    \A k \in 1..Len(tasks) :
        \A i, j \in 1..Len(tasks[k].chunk) :
            /\ store[tasks[k].chunk[i]].owner = store[tasks[k].chunk[j]].owner
            /\ store[tasks[k].chunk[i]].owner # NoOwner

\* The queue holds a batch of two rows, and batches of two different owners.
C23_Witness ==
    /\ \E k \in 1..Len(tasks) : Len(tasks[k].chunk) = 2
    /\ \E k1, k2 \in 1..Len(tasks) :
          store[tasks[k1].chunk[1]].owner # store[tasks[k2].chunk[1]].owner

\* C24: every chunk gets a batch identifier that no other chunk has, within
\* one tick and across ticks, also when two ticks read the same clock value
\* or overlap.
C24_BatchIdsUnique ==
    \A k1, k2 \in 1..Len(tasks) :
        k1 # k2 => tasks[k1].batch_id # tasks[k2].batch_id

C26_BeaconIdempotent ==
    [][/\ \A r \in Reqs :
            (req[r].pc = "open" /\ req'[r].pc = "idle") =>
               IF store[req[r].m].opened_at = NULL
               THEN /\ store'[req[r].m].opened_at # NULL
                    /\ store' = [store EXCEPT ![req[r].m].opened_at =
                                                 store'[req[r].m].opened_at]
               ELSE store' = store
       /\ (http' # NULL /\ http'.kind = "open" /\ req' = req) =>
            /\ store' = store
            /\ \A m \in DOMAIN store :
                  store[m].tracking_id = http'.tok => store[m].opened_at # NULL]_vars

C28_FirstClickOnly ==
    [][/\ \A r \in Reqs :
            (req[r].pc = "click" /\ req'[r].pc = "idle") =>
               /\ store'[req[r].m].clicked_at # NULL
               /\ store[req[r].m].clicked_at # NULL =>
                     store'[req[r].m].clicked_at = store[req[r].m].clicked_at
               /\ store[req[r].m].opened_at # NULL =>
                     store'[req[r].m].opened_at = store[req[r].m].opened_at
       /\ (/\ http' # NULL
           /\ http'.kind = "click"
           /\ http'.resp = "redirect"
           /\ req' = req) =>
            /\ store' = store
            /\ \A m \in DOMAIN store :
                  store[m].tracking_id = http'.tok => store[m].clicked_at # NULL]_vars

\* C29: a click request is answered with a redirect exactly when the url
\* parameter is present, whether or not a row holds the token; without url
\* the answer is the client error and no field of any row changes, even for
\* a valid token; with url and a token no row holds the answer is the
\* redirect and no field of any row changes.
C29_RedirectIffUrlPresent ==
    [][(http' # NULL /\ http'.kind = "click") =>
          /\ http'.resp = "redirect" <=> http'.url # "absent"
          /\ http'.url = "absent" => /\ http'.resp = "400"
                                     /\ store' = store
                                     /\ req' = req
          /\ (/\ http'.url # "absent"
              /\ \A m \in DOMAIN store : store[m].tracking_id # http'.tok)
             => /\ store' = store
                /\ req' = req]_vars

\* C29, with "present" read as the code tests it: a click request is answered
\* with a redirect exactly when the url parameter is present and not empty,
\* whether or not a row holds the token; without url or with an empty one the
\* answer is the client error and no field of any row changes, even for a
\* valid token; with a url and a token no row holds the answer is the redirect
\* and no field of any row changes.
C29_RedirectIffUrlGiven ==
    [][(http' # NULL /\ http'.kind = "click") =>
          /\ http'.resp = "redirect" <=> http'.url = "target"
          /\ http'.url # "target" => /\ http'.resp = "400"
                                     /\ store' = store
                                     /\ req' = req
          /\ (/\ http'.url = "target"
              /\ \A m \in DOMAIN store : store[m].tracking_id # http'.tok)
             => /\ store' = store
                /\ req' = req]_vars

\* A click request without url has just been answered with the client error,
\* for the token of a row that has no clicked_at.
C29_Witness ==
    /\ http # NULL
    /\ http.kind = "click"
    /\ http.url = "absent"
    /\ http.resp = "400"
    /\ \E m \in DOMAIN store :
          store[m].tracking_id = http.tok /\ store[m].clicked_at = NULL

\* C30: opened_at and clicked_at are set once: after a row's opened_at (or
\* clicked_at) is not NULL in the table its value never changes again, also
\* when a beacon request and a click request for the same token are handled
\* concurrently and both read the row before either commits.
C30_SetOnce ==
    [][\A m \in DOMAIN store :
         /\ store[m].opened_at # NULL => store'[m].opened_at = store[m].opened_at
         /\ store[m].clicked_at # NULL => store'[m].clicked_at = store[m].clicked_at]_vars

\* C31: no two rows ever hold the same non-NULL tracking token, and a stored
\* token is never replaced by a different one.
C31_TokenUniqueAndStable ==
    [][/\ \A m1, m2 \in DOMAIN store :
            (m1 # m2 /\ store'[m1].tracking_id # NULL)
                => store'[m1].tracking_id # store'[m2].tracking_id
       /\ \A m \in DOMAIN store :
            store[m].tracking_id # NULL
                => store'[m].tracking_id = store[m].tracking_id]_vars

\* C32: every relay send attempt for a row uses the settings of the user who
\* owns the row's campaign, never those of another account.
C32_OwnSettingsOnly ==
    [][(smtp' # NULL /\ smtp'.via # NoOwner /\ smtp'.r # "connect_failed")
          => smtp'.via = store[smtp'.m].owner]_vars

\* C33: an iteration of process_pending_emails whose relay accepts the send
\* leaves the row sent (the case test_email.py asserts for one pending row).
C33_AcceptedMeansSent ==
    [][(smtp' # NULL /\ smtp'.by = 0 /\ smtp'.r = "ok")
          => store'[smtp'.m].status = "sent"]_vars

\* C34: the body the worker hands to the relay has every anchor marked as
\* trackable pointing to the click redirect with the token of the message
\* and the original destination, has exactly one beacon with that token,
\* and has everything else as stored; the stored body stays as it was.
C34_BodyRewritten ==
    [][(smtp' # NULL /\ smtp'.m # 0 /\ smtp'.attempts > 0)
          => LET m == smtp'.m
                 k == smtp'.by
                 tok == tasks'[k].mem[tasks[k].idx].tracking_id
                 stored == store[m].body
                 sent == smtp'.body
             IN /\ store'[m].body = stored
                /\ Len(sent) >= Len(stored)
                /\ \A i \in 1..Len(stored) :
                     IF stored[i].tag = "a" /\ stored[i].trackable
                     THEN sent[i] = Anchor(TRUE, <<"click", tok, stored[i].ref>>)
                     ELSE sent[i] = stored[i]
                /\ Cardinality({i \in 1..Len(sent) :
                                  sent[i] = TrackingPixel(tok)}) = 1]_vars

\* C35: the chunks a tick builds partition the selected rows that have an
\* owner: every such row is in exactly one chunk, once; a chunk has between 1
\* and ChunkSize rows; and the stamp of a chunk writes its batch id to the
\* rows of that chunk and changes nothing else.
C35_ChunksPartition ==
    [][\A t \in Ticks :
         /\ (tick[t].pc = "idle" /\ tick'[t].pc = "dispatch") =>
               LET todo == tick'[t].todo
                   owned == {m \in tick'[t].pending : store'[m].owner # NoOwner}
               IN /\ \A m \in owned :
                        Cardinality({i \in 1..Len(todo) :
                                        m \in SeqSet(todo[i].chunk)}) = 1
                  /\ \A i \in 1..Len(todo) :
                        /\ SeqSet(todo[i].chunk) \subseteq owned
                        /\ Cardinality(SeqSet(todo[i].chunk)) = Len(todo[i].chunk)
                        /\ Len(todo[i].chunk) >= 1
                        /\ Len(todo[i].chunk) <= ChunkSize
         /\ (tick[t].pc = "dispatch" /\ tick'[t] # tick[t]) =>
               LET chunk == Head(tick[t].todo).chunk
                   bid == tasks'[Len(tasks')].batch_id
               IN /\ tasks'[Len(tasks')].chunk = chunk
                  /\ \A m \in DOMAIN store :
                        store'[m] = IF m \in SeqSet(chunk)
                                    THEN [store[m] EXCEPT !.batch_id = bid]
                                    ELSE store[m]]_vars

\* A tick has stamped a full chunk of a user and still holds a shorter chunk
\* of the same user.
C35_Witness ==
    /\ tick[1].pc = "dispatch"
    /\ Len(tick[1].todo) = 1
    /\ Len(tick[1].todo[1].chunk) < ChunkSize
    /\ \E k \in 1..Len(tasks) :
          /\ Len(tasks[k].chunk) = ChunkSize
          /\ tasks[k].batch_id[1] = tick[1].todo[1].uid
          /\ \A i \in 1..ChunkSize :
                store[tasks[k].chunk[i]].batch_id = tasks[k].batch_id

\* Where the k-th task of the queue is, "none" when there is no such task.
PcOf(k) == IF k <= Len(tasks) THEN tasks[k].pc ELSE "none"

\* C36: a task that has opened its first connection terminates, and when its
\* outcome commit succeeds every row of its batch is sent or failed, none
\* pending, whatever the relay answered.
C36_ConnectedTaskSettles ==
    /\ [][\A k \in 1..Len(tasks) :
            (tasks[k].pc = "record" /\ tasks'[k].pc = "done") =>
               \A m \in SeqSet(tasks[k].chunk) :
                  store'[m].status \in {"sent", "failed"}]_vars
    /\ \A k \in 1..NMsg :
          (PcOf(k) = "loop") ~> (PcOf(k) \in {"done", "error"})

\* A task has returned after its commit, with a row the relay accepted and a
\* row it did not.
C36_Witness ==
    \E k \in 1..Len(tasks) :
        /\ tasks[k].pc = "done"
        /\ tasks[k].result = "sent | failed"
        /\ \E m1, m2 \in SeqSet(tasks[k].chunk) :
              store[m1].status = "sent" /\ store[m2].status = "failed"

\* The connections a task holds open through its handle.
Live(t) == IF t.server = "live" THEN 1 ELSE 0

\* C37: a task holds at most one open connection, and every connection it
\* opens is closed when it ends: in every step the connections opened less
\* the connections closed are the change in what the handle holds, and a task
\* that has ended holds none.
C37_ConnectionsClosed ==
    [][(smtp' # NULL /\ smtp'.by # 0)
          => LET k == smtp'.by
             IN /\ smtp'.opened - smtp'.closed
                      = Live(tasks'[k]) - Live(tasks[k])
                /\ tasks'[k].pc \in {"done", "error"} => Live(tasks'[k]) = 0]_vars

\* A row is waiting for beat: pending, due, not deferred, never stamped, and
\* with an owner.
Waiting(m) == Eligible(store, clock, m) /\ store[m].owner # NoOwner

\* C38: under periodic ticks every row that is pending, due, not deferred,
\* not stamped and has an owner is eventually stamped and dispatched, also
\* when the table holds pending due rows without an owner.
C38_OwnedEventuallyDispatched ==
    \A m \in 1..NBeatRows : Waiting(m) ~> (TasksOf(m) # {})

\* C39: a row of an earlier batch that ended failed and that retry_task has
\* set to pending again is eventually selected, stamped and handed to a
\* worker by a later tick.
C39_RetriedEventuallyDispatched ==
    \A m \in 1..NBeatRows :
        (store[m].status = "pending" /\ store[m].batch_id = EarlierBatch)
            ~> (TasksOf(m) # {})

\* C40: from the moment the relay has accepted a message whose body carries
\* token t, the table maps t to that message: a row an execution has had
\* accepted holds the token the execution sent it with.
C40_AcceptedTokenStored ==
    \A e \in sendLog :
        (e.by # 0 /\ e.m \in tasks[e.by].accepted)
            => store[e.m].tracking_id = e.token

====
